---- MODULE Spec2Model ----
(***************************************************************************)
(* Text selection engine of egui (text_cursor_state.rs): TextCursorState, *)
(* its pointer-interaction state machine and the SelectionBoundary scans. *)
(*                                                                         *)
(* Characters are one-character strings.  A CCursor is its character      *)
(* index (0-based); a Cursor is a record [ccursor, pcursor] with pcursor  *)
(* = <<paragraph, offset>>.  Option<T> is <<>> (None) or <<x>> (Some(x)). *)
(* The row of a cursor (rcursor) and the prefer_next_row flag take no     *)
(* part in any range computation of text_cursor_state.rs and are left     *)
(* out of the cursor records.                                             *)
(***************************************************************************)
EXTENDS Integers, Sequences, FiniteSets, TLC

\* Longest text the boundary scans are applied to.
MaxLen == 4

\* Length of the galley texts of the pointer-interaction state machine.
GalleyLen == 3

\* One representative per class of character the boundary tests tell apart:
\* a word character, a separator that is no line break, a line break.
Alphabet == {"a", " ", "\n"}

Texts == UNION {[1..n -> Alphabet] : n \in 0..MaxLen}

\* The galleys: a word character, one separator, then word characters.
Galleys ==
    {[i \in 1..GalleyLen |-> IF i = 2 THEN sep ELSE "a"] : sep \in {" ", "\n"}}

None == <<>>
Some(x) == <<x>>
Unwrap(o) == o[1]

Min2(a, b) == IF a <= b THEN a ELSE b
Max2(a, b) == IF a >= b THEN a ELSE b

Rev(s) == [i \in 1..Len(s) |-> s[Len(s) + 1 - i]]

(***************************************************************************)
(* SelectionBoundary: the boundary classification and the scans.           *)
(***************************************************************************)
AsciiAlphanumeric ==
    {"a", "b", "c", "d", "e", "f", "g", "h", "i", "j", "k", "l", "m",
     "n", "o", "p", "q", "r", "s", "t", "u", "v", "w", "x", "y", "z",
     "A", "B", "C", "D", "E", "F", "G", "H", "I", "J", "K", "L", "M",
     "N", "O", "P", "Q", "R", "S", "T", "U", "V", "W", "X", "Y", "Z",
     "0", "1", "2", "3", "4", "5", "6", "7", "8", "9"}

is_word_char(c) == c \in AsciiAlphanumeric \/ c = "_"

\* Character mode hits unreachable!(): the value "unreachable" stands for it.
is_boundary_char(self, c) ==
    CASE self = "Word" -> ~is_word_char(c)
      [] self = "Line" -> (c = "\r" \/ c = "\n")
      [] OTHER -> "unreachable"

\* The `for next in it` loop: `index` characters are consumed so far.  In
\* Character mode the first is_boundary_char(next) panics; the value -2
\* stands for that panic.
RECURSIVE boundary_run(_, _, _, _)
boundary_run(self, it, second, index) ==
    IF index + 1 > Len(it) THEN index
    ELSE IF self = "Character" THEN -2
    ELSE IF is_boundary_char(self, it[index + 1]) # is_boundary_char(self, second)
         THEN index
         ELSE boundary_run(self, it, second, index + 1)

next_boundary_char_index(self, it, index) ==
    IF index + 1 > Len(it) THEN index
    ELSE IF index + 2 > Len(it) THEN index + 1
    ELSE boundary_run(self, it, it[index + 2], index + 2)

ccursor_next_bounded(self, text, ccursor) ==
    next_boundary_char_index(self, text, ccursor)

\* usize arithmetic.  Every index here is far below 2^16, so the width of a
\* usize is cut to 16 bits.
UsizeModulus == 2^16

\* a - b on usize: below zero it panics in a build with overflow checks
\* (the debug profile) and wraps in a build without (the release profile).
\* The value -1 stands for the panic; an operand that is a panic is passed
\* on.
usize_sub(overflow_checks, a, b) ==
    IF a < 0 THEN a
    ELSE IF b < 0 THEN b
    ELSE IF a >= b THEN a - b
    ELSE IF overflow_checks THEN -1
    ELSE a - b + UsizeModulus

\* Mutant: the scan runs over the text, not over the reversed text.
previous_bounded_not_reversed(overflow_checks, self, text, ccursor) ==
    LET num_chars == Len(text)
        start == usize_sub(overflow_checks, num_chars, ccursor)
    IN usize_sub(overflow_checks, num_chars,
                 IF start = -1 THEN -1 ELSE next_boundary_char_index(self, text, start))

\* SelectionBoundary::ccursor_previous_bounded in either build profile
previous_bounded(overflow_checks, self, text, ccursor) ==
    LET num_chars == Len(text)
        start == usize_sub(overflow_checks, num_chars, ccursor)
    IN usize_sub(overflow_checks, num_chars,
                 IF start = -1 THEN -1 ELSE next_boundary_char_index(self, Rev(text), start))

\* select_bounded_at calls it with ccursor <= num_chars only, where the two
\* build profiles agree.
ccursor_previous_bounded(self, text, ccursor) == previous_bounded(TRUE, self, text, ccursor)

\* CCursorRange::two(min, max)
CCursorRange_two(min, max) == [primary |-> max, secondary |-> min]

\* Mutant: the characters next to the cursor are not looked at.
select_bounded_at_ignores_neighbours(self, text, ccursor) ==
    IF ccursor = 0 \/ ccursor > Len(text)
    THEN CCursorRange_two(ccursor, ccursor_next_bounded(self, text, ccursor))
    ELSE CCursorRange_two(ccursor_previous_bounded(self, text, ccursor),
                          ccursor_next_bounded(self, text, ccursor))

select_bounded_at(self, text, ccursor) ==
    IF ccursor = 0
    THEN CCursorRange_two(ccursor, ccursor_next_bounded(self, text, ccursor))
    ELSE IF ccursor <= Len(text)
    THEN LET char_before_cursor == text[ccursor] IN
         IF ccursor + 1 <= Len(text)
         THEN LET char_after_cursor == text[ccursor + 1] IN
              IF ~is_boundary_char(self, char_before_cursor)
                 /\ ~is_boundary_char(self, char_after_cursor)
              THEN LET min == ccursor_previous_bounded(self, text, ccursor + 1)
                       max == ccursor_next_bounded(self, text, min)
                   IN CCursorRange_two(min, max)
              ELSE IF ~is_boundary_char(self, char_before_cursor)
              THEN LET min == ccursor_previous_bounded(self, text, ccursor)
                       max == ccursor_next_bounded(self, text, min)
                   IN CCursorRange_two(min, max)
              ELSE IF ~is_boundary_char(self, char_after_cursor)
              THEN LET max == ccursor_next_bounded(self, text, ccursor)
                   IN CCursorRange_two(ccursor, max)
              ELSE LET min == ccursor_previous_bounded(self, text, ccursor)
                       max == ccursor_next_bounded(self, text, ccursor)
                   IN CCursorRange_two(min, max)
         ELSE LET min == ccursor_previous_bounded(self, text, ccursor)
              IN CCursorRange_two(min, ccursor)
    ELSE LET max == ccursor_next_bounded(self, text, ccursor)
         IN CCursorRange_two(ccursor, max)

\* Iterator::skip(n) and Iterator::position(|x| x == c)
skip(it, n) == IF n >= Len(it) THEN <<>> ELSE SubSeq(it, n + 1, Len(it))
position(it, c) ==
    IF \E i \in 1..Len(it) : it[i] = c
    THEN Some((CHOOSE i \in 1..Len(it) : it[i] = c /\ \A j \in 1..(i - 1) : it[j] # c) - 1)
    ELSE None

\* find_line_start(text, current_index) in either build profile; -1 stands
\* for a panic.
find_line_start(overflow_checks, text, current_index) ==
    LET chars_count == Len(text)
        skipped == usize_sub(overflow_checks, chars_count, current_index)
        pos == position(skip(Rev(text), skipped), "\n")
    IN IF skipped = -1 THEN -1
       ELSE IF pos # None THEN usize_sub(overflow_checks, current_index, Unwrap(pos))
       ELSE 0

(***************************************************************************)
(* The galley (layout) and the cursor ranges, as far as pointer handling   *)
(* consumes them.                                                          *)
(***************************************************************************)
\* Number of line breaks among the first i characters of text.
RECURSIVE newlines_before(_, _)
newlines_before(text, i) ==
    IF i = 0 THEN 0
    ELSE newlines_before(text, i - 1) + (IF text[i] = "\n" THEN 1 ELSE 0)

\* Character index at which paragraph p starts (Len(text) + 1 if there is none).
paragraph_start(text, p) ==
    IF p = 0 THEN 0
    ELSE LET ends == {i \in 1..Len(text) : text[i] = "\n" /\ newlines_before(text, i) = p}
         IN IF ends = {} THEN Len(text) + 1 ELSE CHOOSE i \in ends : TRUE

\* Characters of paragraph p, its line break excluded.
paragraph_len(text, p) ==
    LET start == paragraph_start(text, p)
        next  == paragraph_start(text, p + 1)
    IN IF next > Len(text) THEN Len(text) - start ELSE next - 1 - start

\* Galley::from_ccursor: the cursor at a character index, clamped to the text.
from_ccursor(text, ccursor) ==
    LET index == Min2(ccursor, Len(text))
        paragraph == newlines_before(text, index)
    IN [ccursor |-> index,
        pcursor |-> <<paragraph, index - paragraph_start(text, paragraph)>>]

\* Galley::from_pcursor: the cursor at a paragraph-relative position; the
\* character index is re-derived, the paragraph position is kept as given.
from_pcursor(text, pcursor) ==
    LET start == paragraph_start(text, pcursor[1])
    IN [ccursor |-> IF start > Len(text) THEN Len(text)
                    ELSE start + Min2(pcursor[2], paragraph_len(text, pcursor[1])),
        pcursor |-> pcursor]

\* CursorRange::one
CursorRange_one(cursor) == [primary |-> cursor, secondary |-> cursor]

\* CCursorRange::cursor_range(galley)
cursor_range_of(text, ccursor_range) ==
    [primary   |-> from_ccursor(text, ccursor_range.primary),
     secondary |-> from_ccursor(text, ccursor_range.secondary)]

\* CursorRange::as_ccursor_range
as_ccursor_range(cursor_range) ==
    [primary   |-> cursor_range.primary.ccursor,
     secondary |-> cursor_range.secondary.ccursor]

range_min(r) == IF r.primary.ccursor <= r.secondary.ccursor THEN r.primary ELSE r.secondary
range_max(r) == IF r.primary.ccursor >= r.secondary.ccursor THEN r.primary ELSE r.secondary

\* CursorRange::extend: the union of two ranges, from the least to the
\* greatest of their four ends.
extend(a, b) ==
    [primary   |-> IF range_max(a).ccursor >= range_max(b).ccursor
                   THEN range_max(a) ELSE range_max(b),
     secondary |-> IF range_min(a).ccursor <= range_min(b).ccursor
                   THEN range_min(a) ELSE range_min(b)]

\* The cursors a galley hands out, and the ranges over them.
GalleyCursors(t) == {from_ccursor(t, i) : i \in 0..Len(t)}
GalleyRanges(t) == [primary : GalleyCursors(t), secondary : GalleyCursors(t)]

\* The character ranges the owner of a state writes or constructs it from: a
\* caret after the first character, the whole text forwards and backwards.
CharRangeSamples(t) ==
    {[primary |-> 1, secondary |-> 1],
     [primary |-> Len(t), secondary |-> 0],
     [primary |-> 0, secondary |-> Len(t)]}

(***************************************************************************)
(* TextCursorState and the frames of the widget that owns it.              *)
(***************************************************************************)
VARIABLES
    text,                 \* galley.text() of the widget
    cursor_range,         \* Option<CursorRange>
    ccursor_range,        \* Option<CCursorRange>
    initial_cursor_range, \* Option<CursorRange>
    selection_boundary,   \* "Character", "Word" or "Line"
    frame,                \* arguments of the pointer_interaction call in progress
    outcome,              \* last finished operation and what it returned
    last_event,           \* history: the last boundary event the frames reported
    drag_boundary,        \* history: granularity chosen by the press of the drag in progress
    press_range,          \* history: the current range as the most recent press set it
    scan,                 \* a call of a boundary scan: its arguments and result
    font_impls,           \* the FontImpl objects (faces), each with its glyph_info_cache
    atlas,                \* the TextureAtlas the faces share: its allocations, in order
    fonts,                \* the Font objects (font sets) constructed so far
    font_call,            \* last finished font operation: its arguments and result
    callers,              \* concurrent callers of FontImpl::glyph_info: position and locals
    locks                 \* holders of the atlas mutex and of the glyph cache locks

state_vars == <<cursor_range, ccursor_range, initial_cursor_range, selection_boundary>>
history_vars == <<last_event, drag_boundary, press_range>>
font_vars == <<font_impls, atlas, fonts, font_call, callers, locks>>
vars == <<text, cursor_range, ccursor_range, initial_cursor_range,
          selection_boundary, frame, outcome, last_event, drag_boundary, press_range,
          scan,
          font_impls, atlas, fonts, font_call, callers, locks>>

\* What pointer_interaction reads of ui and response in one frame, and its
\* arguments.  click_delay_exceeded is
\* `time_since_last_click() as f64 > input_state::MAX_DOUBLE_CLICK_DELAY`.
BoundaryQueries ==
    [double_clicked : BOOLEAN, clicked : BOOLEAN, any_down : BOOLEAN,
     click_delay_exceeded : BOOLEAN]

\* modifiers.shift is inspected only by a press on the hovered, drag-sensing
\* surface; on every other frame it is recorded as FALSE.
DragQueries ==
    {q \in [sense_drag : BOOLEAN, hovered : BOOLEAN, any_pressed : BOOLEAN,
            shift : BOOLEAN] :
        q.shift => (q.sense_drag /\ q.hovered /\ q.any_pressed)}

MkFrame(b, d, dragged, cursor) ==
    [double_clicked |-> b.double_clicked, clicked |-> b.clicked,
     any_down |-> b.any_down, click_delay_exceeded |-> b.click_delay_exceeded,
     sense_drag |-> d.sense_drag, hovered |-> d.hovered,
     any_pressed |-> d.any_pressed, shift |-> d.shift,
     is_being_dragged |-> dragged, cursor_at_pointer |-> cursor]

\* TextCursorState::default()
Default ==
    /\ cursor_range = None
    /\ ccursor_range = None
    /\ initial_cursor_range = None
    /\ selection_boundary = "Character"

\* impl From<CursorRange> for TextCursorState
FromCursorRange(r) ==
    /\ cursor_range = Some(r)
    /\ ccursor_range = Some([primary |-> r.primary.ccursor,
                             secondary |-> r.secondary.ccursor])
    /\ initial_cursor_range = None
    /\ selection_boundary = "Character"

\* impl From<CCursorRange> for TextCursorState
FromCCursorRange(r) ==
    /\ cursor_range = None
    /\ ccursor_range = Some(r)
    /\ initial_cursor_range = None
    /\ selection_boundary = "Character"

\* No font has been loaded.
NoFonts ==
    /\ font_impls = <<>>
    /\ atlas = <<>>
    /\ fonts = <<>>
    /\ font_call = None
    /\ callers = <<>>
    /\ locks = None

Idle ==
    /\ frame = None
    /\ outcome = [op |-> "new", ret |-> FALSE]
    /\ last_event = "none"
    /\ drag_boundary = "none"
    /\ press_range = None

Init ==
    /\ text \in Galleys
    /\ \/ Default
       \/ \E r \in CharRangeSamples(text) : FromCursorRange(cursor_range_of(text, r))
       \/ \E r \in CharRangeSamples(text) : FromCCursorRange(r)
    /\ Idle
    /\ scan = None
    /\ NoFonts

\* TextCursorState::range(galley), of a state given by its two fields
range(t, cr, ccr) ==
    IF cr # None
    THEN Some([primary   |-> from_pcursor(t, Unwrap(cr).primary.pcursor),
               secondary |-> from_pcursor(t, Unwrap(cr).secondary.pcursor)])
    ELSE IF ccr # None
    THEN Some([primary   |-> from_ccursor(t, Unwrap(ccr).primary),
               secondary |-> from_ccursor(t, Unwrap(ccr).secondary)])
    ELSE None

\* TextCursorState::char_range()
char_range(cr, ccr) ==
    IF ccr # None THEN ccr
    ELSE IF cr # None THEN Some(as_ccursor_range(Unwrap(cr)))
    ELSE None

\* TextCursorState::set_char_range
SetCharRange(r) ==
    /\ frame = None
    /\ cursor_range' = None
    /\ ccursor_range' = r
    /\ outcome' = [op |-> "set_char_range", ret |-> FALSE]
    /\ UNCHANGED <<text, initial_cursor_range, selection_boundary, frame,
                   history_vars, scan, font_vars>>

\* TextCursorState::set_range
SetRange(r) ==
    /\ frame = None
    /\ cursor_range' = r
    /\ ccursor_range' = None
    /\ outcome' = [op |-> "set_range", ret |-> FALSE]
    /\ UNCHANGED <<text, initial_cursor_range, selection_boundary, frame,
                   history_vars, scan, font_vars>>

\* The widget reads the frame's input and calls pointer_interaction.
BeginFrame(f) ==
    /\ frame = None
    /\ frame' = Some(f)
    /\ outcome' = [op |-> "call", ret |-> FALSE]
    /\ UNCHANGED <<text, state_vars, history_vars, scan, font_vars>>

\* Mutant: a click selects lines and a double click selects words.
boundary_after_swapped(boundary, f) ==
    IF f.double_clicked THEN "Word"
    ELSE IF f.clicked THEN "Line"
    ELSE IF ~f.any_down /\ f.click_delay_exceeded THEN "Character"
    ELSE boundary

\* Mutant: the reset to Character does not look at the buttons held.
boundary_after_resets_while_held(boundary, f) ==
    IF f.double_clicked THEN "Line"
    ELSE IF f.clicked THEN "Word"
    ELSE IF f.click_delay_exceeded THEN "Character"
    ELSE boundary

\* The if-chain that opens pointer_interaction.
boundary_after(boundary, f) ==
    IF f.double_clicked THEN "Line"
    ELSE IF f.clicked THEN "Word"
    ELSE IF ~f.any_down /\ f.click_delay_exceeded THEN "Character"
    ELSE boundary

\* The branch of `if response.sense.drag { ... }` a frame takes.
drag_branch(f, boundary) ==
    IF f.sense_drag
    THEN IF f.hovered /\ f.any_pressed
         THEN IF f.shift THEN "start_shift" ELSE "start"
         ELSE IF f.is_being_dragged
         THEN IF boundary = "Character" THEN "drag_character" ELSE "drag_bounded"
         ELSE "none"
    ELSE "none"

\* Mutant: only the start of a drag counts as interaction.
interacted_on_start_only(branch) == branch \in {"start", "start_shift"}

\* The value pointer_interaction returns on each branch.
interacted(branch) == branch # "none"

\* Mutant: shift-click moves the secondary end.
shift_range_moves_secondary(current, cursor_at_pointer) ==
    IF current # None
    THEN [Unwrap(current) EXCEPT !.secondary = cursor_at_pointer]
    ELSE CursorRange_one(cursor_at_pointer)

\* Start of a drag with shift held: the range that is set.
shift_range(current, cursor_at_pointer) ==
    IF current # None
    THEN [Unwrap(current) EXCEPT !.primary = cursor_at_pointer]
    ELSE CursorRange_one(cursor_at_pointer)

\* Mutant: a press always starts a single-point range.
initial_range_one_point(boundary, t, cursor_at_pointer) ==
    CursorRange_one(cursor_at_pointer)

\* Start of a drag without shift: the initial range.
initial_range(boundary, t, cursor_at_pointer) ==
    IF boundary = "Character"
    THEN CursorRange_one(cursor_at_pointer)
    ELSE cursor_range_of(t, select_bounded_at(boundary, t, cursor_at_pointer.ccursor))

\* Mutant: a drag in Character mode collapses the range onto the pointer.
drag_character_collapses(current, cursor_at_pointer) ==
    CursorRange_one(cursor_at_pointer)

\* Drag in Character mode: the range that is set when there is one.
drag_character_range(current, cursor_at_pointer) ==
    [current EXCEPT !.primary = cursor_at_pointer]

\* Mutant: a drag in Word or Line mode forgets the initial range.
drag_bounded_no_extend(initial, boundary, t, cursor_at_pointer) ==
    cursor_range_of(t, select_bounded_at(boundary, t, cursor_at_pointer.ccursor))

\* Drag in Word or Line mode: the range that is set when a drag has started.
drag_bounded_range(initial, boundary, t, cursor_at_pointer) ==
    extend(initial,
           cursor_range_of(t, select_bounded_at(boundary, t, cursor_at_pointer.ccursor)))

\* TextCursorState::pointer_interaction, the whole call.
PointerInteraction ==
    /\ frame # None
    /\ LET f == Unwrap(frame)
           boundary == boundary_after(selection_boundary, f)
           branch == drag_branch(f, boundary)
           current == range(text, cursor_range, ccursor_range)
       IN /\ selection_boundary' = boundary
          /\ CASE branch = "start_shift" ->
                    /\ cursor_range' = Some(shift_range(current, f.cursor_at_pointer))
                    /\ ccursor_range' = None
                    /\ UNCHANGED initial_cursor_range
               [] branch = "start" ->
                    /\ initial_cursor_range' =
                         Some(initial_range(boundary, text, f.cursor_at_pointer))
                    /\ cursor_range' = initial_cursor_range'
                    /\ ccursor_range' = None
               [] branch = "drag_character" /\ current # None ->
                    /\ cursor_range' =
                         Some(drag_character_range(Unwrap(current), f.cursor_at_pointer))
                    /\ ccursor_range' = None
                    /\ UNCHANGED initial_cursor_range
               [] branch = "drag_bounded" /\ initial_cursor_range # None ->
                    /\ cursor_range' =
                         Some(drag_bounded_range(Unwrap(initial_cursor_range), boundary,
                                                 text, f.cursor_at_pointer))
                    /\ ccursor_range' = None
                    /\ UNCHANGED initial_cursor_range
               [] OTHER ->
                    UNCHANGED <<cursor_range, ccursor_range, initial_cursor_range>>
          /\ outcome' = [op |-> branch, ret |-> interacted(branch)]
    /\ frame' = None
    /\ UNCHANGED <<text, scan, font_vars>>

\* The widget, between two calls, starts the next frame with any input.
Frame ==
    /\ frame = None
    /\ \E b \in BoundaryQueries, d \in DragQueries, dragged \in BOOLEAN,
          cursor \in GalleyCursors(text) : BeginFrame(MkFrame(b, d, dragged, cursor))

\* The owner of the state writes a range through one of the two setters.
Write ==
    /\ frame = None
    /\ \/ \E r \in {None} \cup {Some(cursor_range_of(text, x)) : x \in CharRangeSamples(text)} :
             SetRange(r)
       \/ \E r \in {None} \cup {Some(x) : x \in CharRangeSamples(text)} : SetCharRange(r)

Next ==
    \/ Frame
    \/ PointerInteraction /\ UNCHANGED history_vars
    \/ Write

Spec == Init /\ [][Next]_vars

(***************************************************************************)
(* Drags on a hovered, drag-sensing surface without shift, with the        *)
(* history of boundary events and of the drag in progress.                 *)
(***************************************************************************)
\* The boundary event a frame reports: a frame that reports a double click
\* counts as a double click, whatever else it reports.
boundary_event(f) ==
    IF f.double_clicked THEN "double"
    ELSE IF f.clicked THEN "click"
    ELSE IF ~f.any_down /\ f.click_delay_exceeded THEN "reset"
    ELSE "none"

\* The granularity the conventional behaviour asks for after an event.
Granularity(event) ==
    CASE event = "double" -> "Line"
      [] event = "click" -> "Word"
      [] OTHER -> "Character"

IsPress(f) == f.sense_drag /\ f.hovered /\ f.any_pressed
IsContinuation(f) == f.sense_drag /\ ~(f.hovered /\ f.any_pressed) /\ f.is_being_dragged
\* The button of the drag is still held and no click has fired.
StillHeld(f) == f.any_down /\ ~f.clicked /\ ~f.double_clicked

\* History kept along a pointer_interaction call.
Track ==
    LET f == Unwrap(frame) IN
    /\ last_event' = IF boundary_event(f) # "none" THEN boundary_event(f) ELSE last_event
    /\ drag_boundary' =
         IF IsPress(f) /\ ~f.shift THEN Granularity(last_event')
         ELSE IF IsPress(f) \/ ~StillHeld(f) THEN "none"
         ELSE drag_boundary
    /\ UNCHANGED press_range

FrameDrag ==
    /\ frame = None
    /\ \E b \in BoundaryQueries, pressed \in BOOLEAN, dragged \in BOOLEAN,
          cursor \in GalleyCursors(text) :
          BeginFrame(MkFrame(b, [sense_drag |-> TRUE, hovered |-> TRUE,
                                 any_pressed |-> pressed, shift |-> FALSE],
                             dragged, cursor))

NextDrag ==
    \/ FrameDrag
    \/ PointerInteraction /\ Track

SpecDrag == Init /\ [][NextDrag]_vars

(***************************************************************************)
(* Presses, with and without shift, and drags on a hovered, drag-sensing   *)
(* surface, with the history of the range that the last press set.         *)
(***************************************************************************)
\* History kept along a pointer_interaction call: a press leaves the range it
\* has set as the current range.
TrackPress ==
    /\ press_range' = IF IsPress(Unwrap(frame)) THEN cursor_range' ELSE press_range
    /\ UNCHANGED <<last_event, drag_boundary>>

FramePress ==
    /\ frame = None
    /\ \E b \in BoundaryQueries, pressed \in BOOLEAN, shift \in BOOLEAN, dragged \in BOOLEAN,
          cursor \in GalleyCursors(text) :
          /\ shift => pressed
          /\ BeginFrame(MkFrame(b, [sense_drag |-> TRUE, hovered |-> TRUE,
                                    any_pressed |-> pressed, shift |-> shift],
                                dragged, cursor))

NextPress ==
    \/ FramePress
    \/ PointerInteraction /\ TrackPress

SpecPress == Init /\ [][NextPress]_vars

(***************************************************************************)
(* The boundary selection applied to every text and cursor index.          *)
(***************************************************************************)
ScanCalls ==
    {[op |-> "select_bounded_at", boundary |-> b, chars |-> t, index |-> c,
      overflow_checks |-> TRUE, result |-> None] :
        b \in {"Word", "Line"}, t \in Texts, c \in 0..MaxLen + 1}

InitSel ==
    /\ text = <<>>
    /\ Default
    /\ Idle
    /\ NoFonts
    /\ scan \in {Some(c) : c \in {x \in ScanCalls : x.index <= Len(x.chars) + 1}}

\* SelectionBoundary::select_bounded_at(text, ccursor)
SelectBoundedAt ==
    /\ scan # None
    /\ Unwrap(scan).op = "select_bounded_at"
    /\ Unwrap(scan).result = None
    /\ scan' = Some([Unwrap(scan) EXCEPT
                       !.result = Some(select_bounded_at(Unwrap(scan).boundary,
                                                         Unwrap(scan).chars,
                                                         Unwrap(scan).index))])
    /\ UNCHANGED <<text, state_vars, frame, outcome, history_vars, font_vars>>

NextSel == SelectBoundedAt

SpecSel == InitSel /\ [][NextSel]_vars

(***************************************************************************)
(* Properties.  A step out of a state with frame # None is one whole call  *)
(* of pointer_interaction: unprimed variables are the state before the     *)
(* call and its arguments, primed variables the state it leaves.           *)
(***************************************************************************)
Call == Unwrap(frame)
Current == range(text, cursor_range, ccursor_range)

\* C1: in every reachable state, however it was constructed and whatever
\* calls followed, at most one of cursor_range and ccursor_range is present.
C1_AtMostOneRepresentation ==
    ~(cursor_range # None /\ ccursor_range # None)

\* C2: every pointer_interaction call sets the boundary mode to Line on a
\* double click, otherwise to Word on a click, otherwise to Character when no
\* button is down and the double-click delay is exceeded, and otherwise leaves
\* it as it was; whether the surface senses drags plays no part, and the drag
\* handling of the same call works with the updated mode.
C2_BoundaryUpdate ==
    [][frame # None =>
        /\ selection_boundary' =
             (CASE Call.double_clicked -> "Line"
                [] ~Call.double_clicked /\ Call.clicked -> "Word"
                [] ~Call.double_clicked /\ ~Call.clicked
                   /\ ~Call.any_down /\ Call.click_delay_exceeded -> "Character"
                [] OTHER -> selection_boundary)
        /\ (outcome'.op = "drag_character") => (selection_boundary' = "Character")
        /\ (outcome'.op = "drag_bounded") => (selection_boundary' # "Character")
      ]_vars

\* C2 witness: a call on a surface that senses no drags has set the mode to Line.
C2_Witness ==
    /\ outcome.op = "none"
    /\ selection_boundary = "Line"
    /\ initial_cursor_range = None

\* C3: on a hovered, drag-sensing surface without shift, a press selects with
\* the granularity of the last boundary event reported up to and including its
\* own frame -- a single point after a reset, a word after a click, a line
\* after a double click -- and every later frame that continues the drag
\* while the button stays held selects with the granularity chosen at the press.
C3_GranularityPersists ==
    [][frame # None =>
        /\ (IsPress(Call) /\ ~Call.shift /\ last_event' # "none") =>
              /\ initial_cursor_range' =
                   Some(initial_range(Granularity(last_event'), text,
                                      Call.cursor_at_pointer))
              /\ cursor_range' = initial_cursor_range'
              /\ (Granularity(last_event') = "Character") =>
                     (cursor_range' = Some(CursorRange_one(Call.cursor_at_pointer)))
        /\ (IsContinuation(Call) /\ StillHeld(Call) /\ drag_boundary # "none") =>
              /\ initial_cursor_range # None
              /\ Current # None
              /\ cursor_range' =
                   IF drag_boundary = "Character"
                   THEN Some(drag_character_range(Unwrap(Current), Call.cursor_at_pointer))
                   ELSE Some(drag_bounded_range(Unwrap(initial_cursor_range),
                                                drag_boundary, text,
                                                Call.cursor_at_pointer))
      ]_vars

\* C3 witness: a drag that a press after a click started is continued, and
\* the words under the pointer have been added to the word at the press.
C3_Witness ==
    /\ outcome.op = "drag_bounded"
    /\ drag_boundary = "Word"
    /\ last_event = "click"
    /\ cursor_range # initial_cursor_range

\* C4: a press on the hovered, drag-sensing surface without shift stores one
\* range R as the initial range and as the current range, in paragraph-relative
\* form with the character-offset form cleared, and returns true; R is the
\* single point at the press in Character mode and the galley's range of
\* select_bounded_at(mode, text, press position) in Word or Line mode.
C4_DragStart ==
    [][(frame # None /\ IsPress(Call) /\ ~Call.shift) =>
        LET R == IF selection_boundary' = "Character"
                 THEN [primary |-> Call.cursor_at_pointer,
                       secondary |-> Call.cursor_at_pointer]
                 ELSE cursor_range_of(text,
                          select_bounded_at(selection_boundary', text,
                                            Call.cursor_at_pointer.ccursor))
        IN /\ initial_cursor_range' = Some(R)
           /\ cursor_range' = Some(R)
           /\ ccursor_range' = None
           /\ outcome'.ret = TRUE
      ]_vars

\* C4 witness: a press in Word mode has selected more than a point.
C4_Witness ==
    /\ outcome.op = "start"
    /\ selection_boundary = "Word"
    /\ cursor_range = initial_cursor_range
    /\ cursor_range # None
    /\ Unwrap(cursor_range).primary # Unwrap(cursor_range).secondary

\* C5: a press with shift held moves the primary end of the existing range
\* (as the galley materializes it) to the press position and keeps its
\* secondary end, or sets the single point at the press when there is no
\* range; the boundary mode plays no part and the initial range is untouched.
C5_ShiftPress ==
    [][(frame # None /\ IsPress(Call) /\ Call.shift) =>
        /\ cursor_range' =
             IF Current # None
             THEN Some([primary |-> Call.cursor_at_pointer,
                        secondary |-> Unwrap(Current).secondary])
             ELSE Some([primary |-> Call.cursor_at_pointer,
                        secondary |-> Call.cursor_at_pointer])
        /\ initial_cursor_range' = initial_cursor_range
      ]_vars

\* C5 witness: a shift press in Line mode has left a range whose ends differ
\* and which is not the initial range of the earlier drag.
C5_Witness ==
    /\ outcome.op = "start_shift"
    /\ selection_boundary = "Line"
    /\ initial_cursor_range # None
    /\ cursor_range # initial_cursor_range
    /\ Unwrap(cursor_range).primary # Unwrap(cursor_range).secondary

\* C6: a frame that continues a drag in Character mode moves the primary end
\* of the existing range to the pointer and keeps the paragraph-relative
\* position of its secondary end; without a range it changes nothing.
C6_CharacterDrag ==
    [][(frame # None /\ IsContinuation(Call) /\ selection_boundary' = "Character") =>
        IF Current # None
        THEN /\ cursor_range' # None
             /\ Unwrap(cursor_range').primary = Call.cursor_at_pointer
             /\ Unwrap(cursor_range').secondary.pcursor = Unwrap(Current).secondary.pcursor
             /\ (cursor_range # None) =>
                   (Unwrap(cursor_range').secondary.pcursor
                      = Unwrap(cursor_range).secondary.pcursor)
             /\ initial_cursor_range' = initial_cursor_range
        ELSE UNCHANGED <<cursor_range, ccursor_range, initial_cursor_range>>
      ]_vars

\* C6 witness: a drag in Character mode has moved the primary end into
\* another paragraph than the anchor's.
C6_Witness ==
    /\ outcome.op = "drag_character"
    /\ cursor_range # None
    /\ Unwrap(cursor_range).primary.pcursor[1] # Unwrap(cursor_range).secondary.pcursor[1]

\* C7: a frame that continues a drag in Word or Line mode with a stored
\* initial range [a,b] sets the current range to the span from the least to
\* the greatest of a, b and the ends of the boundary selection at the pointer;
\* the initial range is not modified and the current range contains it.
C7_BoundedDrag ==
    [][(frame # None /\ IsContinuation(Call) /\ selection_boundary' # "Character"
        /\ initial_cursor_range # None) =>
        LET a == Unwrap(initial_cursor_range).primary.ccursor
            b == Unwrap(initial_cursor_range).secondary.ccursor
            sel == select_bounded_at(selection_boundary', text,
                                     Call.cursor_at_pointer.ccursor)
            c == sel.primary
            d == sel.secondary
            lo == Min2(Min2(a, b), Min2(c, d))
            hi == Max2(Max2(a, b), Max2(c, d))
        IN /\ cursor_range' # None
           /\ range_min(Unwrap(cursor_range')).ccursor = lo
           /\ range_max(Unwrap(cursor_range')).ccursor = hi
           /\ lo <= Min2(a, b) /\ Max2(a, b) <= hi
           /\ initial_cursor_range' = initial_cursor_range
      ]_vars

\* C7 witness: a drag in Word mode has grown the current range beyond the
\* initial range.
C7_Witness ==
    /\ outcome.op = "drag_bounded"
    /\ selection_boundary = "Word"
    /\ initial_cursor_range # None
    /\ cursor_range # None
    /\ range_min(Unwrap(cursor_range)).ccursor
         < range_min(Unwrap(initial_cursor_range)).ccursor

\* C8: pointer_interaction returns true exactly when the surface senses drags
\* and either a button was pressed this frame over the hovered response or
\* is_being_dragged holds; when it returns false the current range, in both
\* forms, and the initial range are as before the call.
C8_ReturnValue ==
    [][frame # None =>
        /\ outcome'.ret =
             (Call.sense_drag
              /\ ((Call.any_pressed /\ Call.hovered) \/ Call.is_being_dragged))
        /\ (~outcome'.ret) =>
             UNCHANGED <<cursor_range, ccursor_range, initial_cursor_range>>
      ]_vars

\* C8 witness: a call has returned true without changing anything: a drag
\* in Word mode that no press with a stored initial range precedes.
C8_Witness ==
    /\ outcome.op = "drag_bounded"
    /\ outcome.ret
    /\ initial_cursor_range = None
    /\ ccursor_range # None

\* A finished call of select_bounded_at on a cursor index inside the text.
Scanned == scan # None /\ Unwrap(scan).result # None
ScanText == Unwrap(scan).chars
ScanIndex == Unwrap(scan).index
ScanMin == Unwrap(Unwrap(scan).result).secondary
ScanMax == Unwrap(Unwrap(scan).result).primary

IsSeparator(c) == ~is_word_char(c)

\* The maximal run of characters of one kind around character k (1-based) of t,
\* as the pair of cursor indices before its first and after its last character.
RunAround(t, k, Kind(_)) ==
    <<CHOOSE i \in 0..(k - 1) :
          /\ \A j \in (i + 1)..k : Kind(t[j])
          /\ (i = 0 \/ ~Kind(t[i])),
      CHOOSE e \in k..Len(t) :
          /\ \A j \in k..e : Kind(t[j])
          /\ (e = Len(t) \/ ~Kind(t[e + 1]))>>

\* C9: in Word mode, at a cursor inside or at either edge of a maximal run of
\* word characters select_bounded_at returns exactly that run, and at a cursor
\* between two separators it returns the maximal run of separators around it.
C9_WordSelectsRun ==
    (Scanned /\ Unwrap(scan).boundary = "Word" /\ ScanIndex <= Len(ScanText)) =>
        LET t == ScanText
            c == ScanIndex
            before == c >= 1 /\ is_word_char(t[c])
            after == c + 1 <= Len(t) /\ is_word_char(t[c + 1])
        IN /\ after => <<ScanMin, ScanMax>> = RunAround(t, c + 1, is_word_char)
           /\ (before /\ ~after) => <<ScanMin, ScanMax>> = RunAround(t, c, is_word_char)
           /\ (c >= 1 /\ c + 1 <= Len(t) /\ ~before /\ ~after) =>
                 <<ScanMin, ScanMax>> =
                     <<RunAround(t, c, IsSeparator)[1], RunAround(t, c + 1, IsSeparator)[2]>>

\* C10: at every cursor index of every text, the range select_bounded_at
\* returns in Word mode lies within the range it returns in Line mode.
C10_WordWithinLine ==
    (Scanned /\ Unwrap(scan).boundary = "Word" /\ ScanIndex <= Len(ScanText)) =>
        LET line == select_bounded_at("Line", ScanText, ScanIndex)
        IN line.secondary <= ScanMin /\ ScanMax <= line.primary

(***************************************************************************)
(* Glyph caches of epaint (font.rs): FontImpl, one font face at one size,  *)
(* and Font, an ordered list of faces with a replacement glyph.            *)
(*                                                                         *)
(* A char is its code point.  A GlyphInfo is [id, advance_width, uv_rect]  *)
(* and a UvRect is [min, max]: the texels of the atlas it covers (offset   *)
(* and size are functions of the same bounding box and are left out).      *)
(* A hash map is a function whose domain is the set of its keys.           *)
(* The atlas is the sequence of the rectangles allocated so far, each with *)
(* the image drawn into it.                                                *)
(***************************************************************************)
PRIMARY_REPLACEMENT_CHAR == 9723       \* U+25FB, white medium square
FALLBACK_REPLACEMENT_CHAR == 63        \* '?'
TAB == 9
SPACE == 32
TAB_SIZE == 4

\* The characters looked up: tab, space, '?', U+200B (zero width space),
\* U+25FB, U+534D (denylisted), U+FF33 (fullwidth S).
Chars == {TAB, SPACE, FALLBACK_REPLACEMENT_CHAR, 8203,
          PRIMARY_REPLACEMENT_CHAR, 21325, 65331}

UvRect_default == [min |-> 0, max |-> 0]
GlyphInfo_default == [id |-> 0, advance_width |-> 0, uv_rect |-> UvRect_default]

\* UvRect::is_nothing
is_nothing(uv_rect) == uv_rect.min = uv_rect.max

\* Mutant: only the fullwidth capitals of "emoji-icon-font" are ignored.
ignore_character_emoji_only(name, chr) ==
    name = "emoji-icon-font" /\ 65331 <= chr /\ chr <= 65337

\* FontImpl::ignore_character
ignore_character(name, chr) ==
    \/ name = "emoji-icon-font" /\ 65331 <= chr /\ chr <= 65337
    \/ chr \in {21325, 21328, 57599, 61437, 61695, 61952}

\* invisible_char
invisible_char(c) == 8203 <= c /\ c <= 8303

\* ab_glyph::Font::glyph_id of a font backend with the given character map:
\* 0 when the font has no glyph for the character.
glyph_id_of(ab_glyph_font, c) == IF c \in ab_glyph_font.cmap THEN c ELSE 0

\* TextureAtlas::allocate: the next free rectangle of the shared image.
allocate(atl, image) == [glyph_pos |-> Len(atl), atlas |-> Append(atl, image)]

\* allocate_glyph: a glyph without outline (white space) takes no room in
\* the atlas; every other glyph is drawn into a newly allocated rectangle.
allocate_glyph(atl, image, ab_glyph_font, glyph_id, advance) ==
    IF glyph_id \in ab_glyph_font.blank
    THEN [glyph_info |-> [id |-> glyph_id, advance_width |-> advance,
                          uv_rect |-> UvRect_default],
          atlas |-> atl]
    ELSE LET a == allocate(atl, image)
         IN [glyph_info |-> [id |-> glyph_id, advance_width |-> advance,
                             uv_rect |-> [min |-> a.glyph_pos, max |-> a.glyph_pos + 1]],
             atlas |-> a.atlas]

\* allocate_native_glyph: the measured width and height are at least 1, so
\* a rectangle is always allocated.
allocate_native_glyph(atl, image, advance) ==
    LET a == allocate(atl, image)
    IN [glyph_info |-> [id |-> 0, advance_width |-> advance,
                        uv_rect |-> [min |-> a.glyph_pos, max |-> a.glyph_pos + 1]],
        atlas |-> a.atlas]

\* Mutant: the map keeps the last entry only.
insert_evicting(map, key, value) == (key :> value)

\* HashMap::insert
insert(map, key, value) == (key :> value) @@ map

\* FontImpl::glyph_info, lines 161-200 ("Add new character"): the lookup in
\* the font backend, or the native rasterization of a face without backend.
\* impls are the faces, atl the atlas, self the index of the face.
add_new_character(impls, atl, self, c) ==
    LET me == impls[self]
        cached(glyph_info, atl2) ==
            [ret |-> Some(glyph_info),
             impls |-> [impls EXCEPT ![self].glyph_info_cache = insert(@, c, glyph_info)],
             atlas |-> atl2]
    IN IF me.ab_glyph_font # None
       THEN LET ab_glyph_font == Unwrap(me.ab_glyph_font)
                glyph_id == glyph_id_of(ab_glyph_font, c)
            IN IF glyph_id = 0
               THEN IF invisible_char(c)
                    THEN cached(GlyphInfo_default, atl)
                    ELSE [ret |-> None, impls |-> impls, atlas |-> atl]
               ELSE LET a == allocate_glyph(atl, <<self, c>>, ab_glyph_font, glyph_id,
                                            me.advance_width)
                    IN cached(a.glyph_info, a.atlas)
       ELSE LET a == allocate_native_glyph(atl, <<self, c>>, me.advance_width)
            IN cached(a.glyph_info, a.atlas)

\* Mutant: tab is given the glyph of space.
tab_is_space(space) == space

\* The glyph synthesized for tab from the glyph of space (lines 152-155).
tab_glyph_info(space) ==
    [GlyphInfo_default EXCEPT !.advance_width = TAB_SIZE * space.advance_width]

\* FontImpl::glyph_info(c): the result, and the faces and the atlas after
\* the call.
RECURSIVE FontImpl_glyph_info(_, _, _, _)
FontImpl_glyph_info(impls, atl, self, c) ==
    LET me == impls[self]
        none == [ret |-> None, impls |-> impls, atlas |-> atl]
    IN IF c \in DOMAIN me.glyph_info_cache
       THEN [ret |-> Some(me.glyph_info_cache[c]), impls |-> impls, atlas |-> atl]
       ELSE IF ignore_character(me.name, c)
       THEN none
       ELSE LET after(space) ==
                    IF c = TAB /\ space.ret # None
                    THEN LET glyph_info == tab_glyph_info(Unwrap(space.ret))
                         IN [ret |-> Some(glyph_info),
                             impls |-> [space.impls EXCEPT
                                          ![self].glyph_info_cache =
                                              insert(@, c, glyph_info)],
                             atlas |-> space.atlas]
                    ELSE add_new_character(space.impls, space.atlas, self, c)
            IN after(IF c = TAB THEN FontImpl_glyph_info(impls, atl, self, SPACE)
                     ELSE none)

\* Font::glyph_info_no_cache_or_fallback(c), from the face at font_index on.
\* slf is the Font; its faces are indexes into impls, and a FontIndex is
\* 0-based as in the code.  queried lists the faces whose glyph_info the loop
\* has called, in the order of the calls.
RECURSIVE first_font_impl(_, _, _, _, _)
first_font_impl(slf, impls, atl, c, font_index) ==
    IF font_index >= Len(slf.fonts)
    THEN [ret |-> None, slf |-> slf, impls |-> impls, atlas |-> atl, queried |-> <<>>]
    ELSE LET font_impl == slf.fonts[font_index + 1]
             after(rest) == [rest EXCEPT !.queried = <<font_impl>> \o @]
             found(r) ==
                 IF r.ret # None
                 THEN [ret |-> Some(<<font_index, Unwrap(r.ret)>>),
                       slf |-> [slf EXCEPT !.glyph_info_cache =
                                             insert(@, c, <<font_index, Unwrap(r.ret)>>)],
                       impls |-> r.impls, atlas |-> r.atlas, queried |-> <<font_impl>>]
                 ELSE after(first_font_impl(slf, r.impls, r.atlas, c, font_index + 1))
         IN found(FontImpl_glyph_info(impls, atl, font_impl, c))

\* Mutant: the loop over the faces leaves out the first face.
glyph_info_skips_first_face(slf, impls, atl, c) == first_font_impl(slf, impls, atl, c, 1)

glyph_info_no_cache_or_fallback(slf, impls, atl, c) == first_font_impl(slf, impls, atl, c, 0)

\* Mutant: a miss returns what the faces resolve and caches the replacement
\* glyph.
Font_glyph_info_caches_replacement(slf, impls, atl, c) ==
    IF c \in DOMAIN slf.glyph_info_cache
    THEN [ret |-> slf.glyph_info_cache[c], slf |-> slf, impls |-> impls, atlas |-> atl,
          queried |-> <<>>]
    ELSE LET cached(r) ==
                 [ret |-> IF r.ret # None THEN Unwrap(r.ret) ELSE slf.replacement_glyph,
                  slf |-> [r.slf EXCEPT !.glyph_info_cache =
                                          insert(@, c, slf.replacement_glyph)],
                  impls |-> r.impls, atlas |-> r.atlas, queried |-> r.queried]
         IN cached(glyph_info_no_cache_or_fallback(slf, impls, atl, c))

\* Mutant: a miss of every face returns the replacement glyph and caches
\* nothing.
Font_glyph_info_forgets_miss(slf, impls, atl, c) ==
    IF c \in DOMAIN slf.glyph_info_cache
    THEN [ret |-> slf.glyph_info_cache[c], slf |-> slf, impls |-> impls, atlas |-> atl,
          queried |-> <<>>]
    ELSE LET or_replacement(r) ==
                 [ret |-> IF r.ret # None THEN Unwrap(r.ret) ELSE slf.replacement_glyph,
                  slf |-> r.slf, impls |-> r.impls, atlas |-> r.atlas,
                  queried |-> r.queried]
         IN or_replacement(glyph_info_no_cache_or_fallback(slf, impls, atl, c))

\* Font::glyph_info(c)
Font_glyph_info(slf, impls, atl, c) ==
    IF c \in DOMAIN slf.glyph_info_cache
    THEN [ret |-> slf.glyph_info_cache[c], slf |-> slf, impls |-> impls, atlas |-> atl,
          queried |-> <<>>]
    ELSE LET cached(r, font_index_glyph_info) ==
                 [ret |-> font_index_glyph_info,
                  slf |-> [r.slf EXCEPT !.glyph_info_cache =
                                          insert(@, c, font_index_glyph_info)],
                  impls |-> r.impls, atlas |-> r.atlas, queried |-> r.queried]
             or_replacement(r) ==
                 cached(r, IF r.ret # None THEN Unwrap(r.ret) ELSE slf.replacement_glyph)
         IN or_replacement(glyph_info_no_cache_or_fallback(slf, impls, atl, c))

\* Font::glyph_info_and_font_impl(c).  font_impl is the face returned (its
\* index in impls), None without faces; indexing self.fonts out of bounds
\* panics (font_impl is then None as well).
glyph_info_and_font_impl(slf, impls, atl, c) ==
    IF Len(slf.fonts) = 0
    THEN [panicked |-> FALSE, font_impl |-> None, font_index |-> None,
          glyph_info |-> slf.replacement_glyph[2],
          slf |-> slf, impls |-> impls, atlas |-> atl, queried |-> <<>>]
    ELSE LET indexed(r, font_index) ==
                 [panicked |-> ~(font_index < Len(slf.fonts)),
                  font_impl |-> IF font_index < Len(slf.fonts)
                                THEN Some(slf.fonts[font_index + 1]) ELSE None,
                  font_index |-> Some(font_index), glyph_info |-> r.ret[2],
                  slf |-> r.slf, impls |-> r.impls, atlas |-> r.atlas,
                  queried |-> r.queried]
             found(r) == indexed(r, r.ret[1])
         IN found(Font_glyph_info(slf, impls, atl, c))

\* Mutant: the constructor tries the fallback replacement character first.
Font_new_prefers_fallback(impls, atl, font_list) ==
    LET empty == [fonts |-> font_list, replacement_glyph |-> <<0, GlyphInfo_default>>,
                  glyph_info_cache |-> <<>>]
        with(r) ==
            [ret |-> Some([r.slf EXCEPT !.replacement_glyph = Unwrap(r.ret)]),
             impls |-> r.impls, atlas |-> r.atlas]
        or_primary(primary) ==
            IF primary.ret # None THEN with(primary)
            ELSE [ret |-> None, impls |-> primary.impls, atlas |-> primary.atlas]
        or_else(fallback) ==
            IF fallback.ret # None THEN with(fallback)
            ELSE or_primary(glyph_info_no_cache_or_fallback(fallback.slf, fallback.impls,
                                                            fallback.atlas,
                                                            PRIMARY_REPLACEMENT_CHAR))
    IN IF Len(font_list) = 0
       THEN [ret |-> Some(empty), impls |-> impls, atlas |-> atl]
       ELSE or_else(glyph_info_no_cache_or_fallback(empty, impls, atl,
                                                    FALLBACK_REPLACEMENT_CHAR))

\* Font::new(fonts): ret is the Font constructed, None when the constructor
\* panics.  The other
\* fields of a Font (characters, pixels_per_point, row_height) take no part
\* in the glyph lookups.
Font_new(impls, atl, font_list) ==
    LET empty == [fonts |-> font_list, replacement_glyph |-> <<0, GlyphInfo_default>>,
                  glyph_info_cache |-> <<>>]
        with(r) ==
            [ret |-> Some([r.slf EXCEPT !.replacement_glyph = Unwrap(r.ret)]),
             impls |-> r.impls, atlas |-> r.atlas]
        or_fallback(fallback) ==
            IF fallback.ret # None THEN with(fallback)
            ELSE [ret |-> None, impls |-> fallback.impls, atlas |-> fallback.atlas]
        or_else(primary) ==
            IF primary.ret # None THEN with(primary)
            ELSE or_fallback(glyph_info_no_cache_or_fallback(primary.slf, primary.impls,
                                                             primary.atlas,
                                                             FALLBACK_REPLACEMENT_CHAR))
    IN IF Len(font_list) = 0
       THEN [ret |-> Some(empty), impls |-> impls, atlas |-> atl]
       ELSE or_else(glyph_info_no_cache_or_fallback(empty, impls, atl,
                                                    PRIMARY_REPLACEMENT_CHAR))

(***************************************************************************)
(* Font sets built over a pool of faces that share one atlas, used by a    *)
(* single caller.                                                          *)
(***************************************************************************)
\* Number of faces of a font set.
MaxFaces == 2
\* Number of characters the font sets resolve (entries of their caches).
MaxGlyphs == 3

\* Glyphs without outline.
Blank == {TAB, SPACE}

\* FontImpl::new(atlas, pixels_per_point, name, ab_glyph_font, ...)
FontImpl_new(name, ab_glyph_font, advance_width) ==
    [name |-> name, ab_glyph_font |-> ab_glyph_font, advance_width |-> advance_width,
     glyph_info_cache |-> <<>>]

\* The faces loaded, all on one atlas: a latin font with '?' and without
\* U+25FB; a symbol font with neither of them, with a glyph for tab, none
\* for space, and glyphs for two characters of its denylist; a face without
\* font backend.
LoadedFonts ==
    <<FontImpl_new("Ubuntu-Light",
                   Some([cmap |-> {SPACE, FALLBACK_REPLACEMENT_CHAR, 21325, 65331},
                         blank |-> Blank]), 1),
      FontImpl_new("emoji-icon-font",
                   Some([cmap |-> {TAB, 21325, 65331}, blank |-> Blank]), 2),
      FontImpl_new("sans-serif", None, 3)>>

\* The lists of faces a font set is built from: loaded faces, in any order,
\* without repetition.
FontLists ==
    {l \in UNION {[1..n -> DOMAIN LoadedFonts] : n \in 0..MaxFaces} :
        \A i, j \in 1..Len(l) : i # j => l[i] # l[j]}

\* The font sets of the application, one per font family.
FontFamilies == {"Proportional", "Monospace"}

machine_vars == <<text, state_vars, frame, outcome, history_vars, scan>>

InitFont ==
    /\ text = <<>>
    /\ Default
    /\ Idle
    /\ scan = None
    /\ font_impls = LoadedFonts
    /\ atlas = <<>>
    /\ fonts = [family \in FontFamilies |-> None]
    /\ font_call = None
    /\ callers = <<>>
    /\ locks = None

\* The Font of a family that has been constructed.
FontOf(family) == Unwrap(fonts[family])
Constructed == {family \in FontFamilies : fonts[family] # None}

\* Entries of the caches of the font sets.
Resolved ==
    UNION {{<<family, c>> : c \in DOMAIN FontOf(family).glyph_info_cache} :
              family \in Constructed}

\* Font::new(fonts)
NewFont ==
    /\ \E family \in FontFamilies \ Constructed, font_list \in FontLists :
          LET returns(r) ==
                  /\ fonts' = IF r.ret = None THEN fonts ELSE [fonts EXCEPT ![family] = r.ret]
                  /\ font_impls' = r.impls
                  /\ atlas' = r.atlas
                  /\ font_call' = Some([op |-> "new", font |-> family, fonts |-> font_list,
                                        c |-> None, cached |-> FALSE, queried |-> <<>>,
                                        ret |-> IF r.ret = None THEN "panic" ELSE "ok"])
          IN returns(Font_new(font_impls, atlas, font_list))
    /\ UNCHANGED <<machine_vars, callers, locks>>

\* Font::glyph_info_and_font_impl(c) on the font set of a family
GlyphInfoAndFontImpl ==
    /\ \E family \in Constructed, c \in Chars :
          /\ c \in DOMAIN FontOf(family).glyph_info_cache
                \/ Cardinality(Resolved) < MaxGlyphs
          /\ LET returns(r) ==
                     /\ fonts' = [fonts EXCEPT ![family] = Some(r.slf)]
                     /\ font_impls' = r.impls
                     /\ atlas' = r.atlas
                     /\ font_call' =
                           Some([op |-> "glyph_info_and_font_impl", font |-> family,
                                 fonts |-> r.slf.fonts, c |-> Some(c),
                                 cached |-> c \in DOMAIN FontOf(family).glyph_info_cache,
                                 queried |-> r.queried,
                                 ret |-> [panicked |-> r.panicked,
                                          font_impl |-> r.font_impl,
                                          font_index |-> r.font_index,
                                          glyph_info |-> r.glyph_info]])
             IN returns(glyph_info_and_font_impl(FontOf(family), font_impls, atlas, c))
    /\ UNCHANGED <<machine_vars, callers, locks>>

NextFont ==
    \/ NewFont
    \/ GlyphInfoAndFontImpl

SpecFont == InitFont /\ [][NextFont]_vars

\* Font::glyph_width(c) on the font set of a family: Font::glyph_info(c), of
\* which it returns the advance width.
GlyphWidth ==
    /\ \E family \in Constructed, c \in Chars :
          /\ c \in DOMAIN FontOf(family).glyph_info_cache
                \/ Cardinality(Resolved) < MaxGlyphs
          /\ LET returns(r) ==
                     /\ fonts' = [fonts EXCEPT ![family] = Some(r.slf)]
                     /\ font_impls' = r.impls
                     /\ atlas' = r.atlas
                     /\ font_call' =
                           Some([op |-> "glyph_width", font |-> family,
                                 fonts |-> r.slf.fonts, c |-> Some(c),
                                 cached |-> c \in DOMAIN FontOf(family).glyph_info_cache,
                                 queried |-> r.queried,
                                 ret |-> [font_index_glyph_info |-> r.ret,
                                          advance_width |-> r.ret[2].advance_width]])
             IN returns(Font_glyph_info(FontOf(family), font_impls, atlas, c))
    /\ UNCHANGED <<machine_vars, callers, locks>>

NextWidth ==
    \/ NewFont
    \/ GlyphWidth

\* The font sets used through Font::glyph_width, and so through
\* Font::glyph_info also when a set has no face.
SpecWidth == InitFont /\ [][NextWidth]_vars

(***************************************************************************)
(* Properties of the font sets.                                            *)
(***************************************************************************)
FontCall == Unwrap(font_call)
IsLookup == font_call # None /\ FontCall.op = "glyph_info_and_font_impl"
IsNew == font_call # None /\ FontCall.op = "new"

\* What FontImpl::glyph_info(c) returns on the loaded face font_impl, now.
PerFace(font_impl, c) == FontImpl_glyph_info(font_impls, atlas, font_impl, c).ret

\* The indexes of the faces of a font set that resolve c.
Resolving(slf, c) ==
    {font_index \in 0..Len(slf.fonts) - 1 : PerFace(slf.fonts[font_index + 1], c) # None}

Lowest(indexes) == CHOOSE i \in indexes : \A j \in indexes : i <= j

\* C11: on a font set with at least one face, a lookup returns the face of
\* the smallest index whose per-face lookup resolves the character, with the
\* glyph of that face; when no face resolves it, the replacement glyph of
\* the set, paired with the face that supplied that glyph.  The index
\* returned is an index of the list of faces.
C11_LowestIndexFaceWins ==
    (IsLookup /\ Len(FontCall.fonts) > 0) =>
        LET slf == FontOf(FontCall.font)
            c == Unwrap(FontCall.c)
            ret == FontCall.ret
            font_index == Unwrap(ret.font_index)
            replacement == slf.replacement_glyph
        IN /\ ~ret.panicked
           /\ font_index \in 0..Len(slf.fonts) - 1
           /\ ret.font_impl = Some(slf.fonts[font_index + 1])
           /\ IF Resolving(slf, c) # {}
              THEN /\ font_index = Lowest(Resolving(slf, c))
                   /\ Some(ret.glyph_info) = PerFace(slf.fonts[font_index + 1], c)
              ELSE /\ <<font_index, ret.glyph_info>> = replacement
                   /\ \E rc \in {PRIMARY_REPLACEMENT_CHAR, FALLBACK_REPLACEMENT_CHAR} :
                         PerFace(slf.fonts[replacement[1] + 1], rc) = Some(replacement[2])

\* A first lookup that the second face of a set resolves and the first does
\* not, and a first lookup that no face resolves.
C11_Witness ==
    /\ IsLookup
    /\ ~FontCall.cached
    /\ Len(FontCall.fonts) = 2
    /\ FontCall.ret.font_index = Some(1)
    /\ Resolving(FontOf(FontCall.font), Unwrap(FontCall.c)) = {1}
    /\ \E family \in Constructed :
          /\ Len(FontOf(family).fonts) = 2
          /\ \E c \in DOMAIN FontOf(family).glyph_info_cache :
                Resolving(FontOf(family), c) = {}

\* The entries of the cache of every font set stay as they are.
FontCachesKept ==
    \A family \in Constructed :
        /\ fonts'[family] # None
        /\ \A c \in DOMAIN FontOf(family).glyph_info_cache :
              /\ c \in DOMAIN Unwrap(fonts'[family]).glyph_info_cache
              /\ Unwrap(fonts'[family]).glyph_info_cache[c] =
                    FontOf(family).glyph_info_cache[c]

\* C12: a lookup leaves its result in the cache of the set (so the first
\* lookup of a character fixes its entry), a lookup of a cached character
\* returns the entry, and no step, be it a lookup of another character, a
\* lookup on the other set, which shares the faces and the atlas, or the
\* construction of the other set, changes an entry: every lookup after the
\* first returns the face index and the glyph of the first.
C12_SameResultEveryLookup ==
    [][/\ FontCachesKept
       /\ (font_call' # None /\ font_call' # font_call
           /\ Unwrap(font_call').op = "glyph_info_and_font_impl"
           /\ Len(Unwrap(font_call').fonts) > 0) =>
            LET call == Unwrap(font_call')
                c == Unwrap(call.c)
                returned == <<Unwrap(call.ret.font_index), call.ret.glyph_info>>
            IN /\ Unwrap(fonts'[call.font]).glyph_info_cache[c] = returned
               /\ call.cached => FontOf(call.font).glyph_info_cache[c] = returned]_vars

\* A second or later lookup of a character that is no replacement character,
\* on a set whose faces the other set shares, after the other set has had
\* glyphs drawn into the atlas.
C12_Witness ==
    /\ IsLookup
    /\ FontCall.cached
    /\ Unwrap(FontCall.c) \notin {PRIMARY_REPLACEMENT_CHAR, FALLBACK_REPLACEMENT_CHAR}
    /\ FontCall.ret.glyph_info # FontOf(FontCall.font).replacement_glyph[2]
    /\ \E other \in Constructed \ {FontCall.font} :
          /\ \E i \in DOMAIN FontOf(other).fonts, j \in DOMAIN FontCall.fonts :
                FontOf(other).fonts[i] = FontCall.fonts[j]
          /\ FontOf(other).glyph_info_cache # <<>>
    /\ Len(atlas) >= 2

\* Some face of the list resolves c.
SomeFaceResolves(font_list, c) ==
    \E i \in DOMAIN font_list : PerFace(font_list[i], c) # None

\* The replacement glyph of slf is the glyph of c on the first face of slf
\* that resolves c.
ReplacementIs(slf, c) ==
    /\ Resolving(slf, c) # {}
    /\ slf.replacement_glyph[1] = Lowest(Resolving(slf, c))
    /\ Some(slf.replacement_glyph[2]) = PerFace(slf.fonts[Lowest(Resolving(slf, c)) + 1], c)

\* What C13 says of the construction from font_list that has just ended.
ConstructionAsSpecified(font_list) ==
    /\ FontCall.ret = "panic" <=>
          (/\ ~SomeFaceResolves(font_list, PRIMARY_REPLACEMENT_CHAR)
           /\ ~SomeFaceResolves(font_list, FALLBACK_REPLACEMENT_CHAR))
    /\ FontCall.ret = "ok" =>
          IF SomeFaceResolves(font_list, PRIMARY_REPLACEMENT_CHAR)
          THEN ReplacementIs(FontOf(FontCall.font), PRIMARY_REPLACEMENT_CHAR)
          ELSE ReplacementIs(FontOf(FontCall.font), FALLBACK_REPLACEMENT_CHAR)

\* C13 as stated: the construction of a font set panics exactly when no face
\* of the list resolves the primary nor the fallback replacement character;
\* otherwise the replacement glyph is that of the primary character if some
\* face resolves it, and that of the fallback character if none does.
C13_ConstructionFailsIffNoReplacement ==
    IsNew => ConstructionAsSpecified(FontCall.fonts)

\* C13 amended: the same, for a list of at least one face (the constructor
\* returns a set without faces for the empty list).
C13_NonEmptyConstruction ==
    (IsNew /\ Len(FontCall.fonts) > 0) => ConstructionAsSpecified(FontCall.fonts)

\* A set of two faces constructed with the glyph of the fallback character,
\* which its second face supplies.
C13_Witness ==
    /\ IsNew
    /\ FontCall.ret = "ok"
    /\ Len(FontCall.fonts) = 2
    /\ ~SomeFaceResolves(FontCall.fonts, PRIMARY_REPLACEMENT_CHAR)
    /\ FontOf(FontCall.font).replacement_glyph[1] = 1

\* The denylist of a face: U+534D, U+5350, U+E0FF, U+EFFD, U+F0FF, U+F200,
\* and U+FF33..U+FF39 on the face named "emoji-icon-font".
Denylist(name) ==
    {21325, 21328, 57599, 61437, 61695, 61952}
        \cup (IF name = "emoji-icon-font" THEN 65331..65337 ELSE {})

\* C14: whatever lookups have been made, on every face, with or without font
\* backend, the per-face lookup of a denylisted character returns None and
\* the glyph cache of the face has no entry for the character.
C14_DenylistNeverResolved ==
    \A self \in DOMAIN font_impls :
        \A c \in Denylist(font_impls[self].name) :
            /\ PerFace(self, c) = None
            /\ c \notin DOMAIN font_impls[self].glyph_info_cache

\* U+534D has just been looked up on a set of the emoji font and the latin
\* font, whose backends both have a glyph for it, after U+FF33, which the
\* latin font resolved.
C14_Witness ==
    /\ IsLookup
    /\ ~FontCall.cached
    /\ FontCall.c = Some(21325)
    /\ FontCall.fonts = <<2, 1>>
    /\ 21325 \in Unwrap(font_impls[1].ab_glyph_font).cmap
    /\ 21325 \in Unwrap(font_impls[2].ab_glyph_font).cmap
    /\ 65331 \in DOMAIN FontOf(FontCall.font).glyph_info_cache
    /\ FontOf(FontCall.font).glyph_info_cache[65331][1] = 1
    /\ font_impls[1].glyph_info_cache # <<>>

\* The entries of the glyph cache of every face stay as they are.
FaceCachesKept ==
    \A self \in DOMAIN font_impls :
        \A c \in DOMAIN font_impls[self].glyph_info_cache :
            /\ c \in DOMAIN font_impls'[self].glyph_info_cache
            /\ font_impls'[self].glyph_info_cache[c] = font_impls[self].glyph_info_cache[c]

\* The images a step adds to the atlas.
Allocated == SubSeq(atlas', Len(atlas) + 1, Len(atlas'))

\* C17: with one caller, every step keeps the entries of the glyph cache of
\* every face and of every font set, so the caches only grow; the atlas keeps
\* its images, and every image a step allocates is for a face and a character
\* that had no entry in the cache of the face and no image in the atlas
\* before and has an entry after: the allocator runs at most once for a face
\* and a character.
C17_CachesOnlyGrow ==
    [][/\ FaceCachesKept
       /\ FontCachesKept
       /\ Len(atlas') >= Len(atlas)
       /\ SubSeq(atlas', 1, Len(atlas)) = atlas
       /\ \A i \in DOMAIN Allocated :
             LET self == Allocated[i][1]
                 c == Allocated[i][2]
             IN /\ c \notin DOMAIN font_impls[self].glyph_info_cache
                /\ c \in DOMAIN font_impls'[self].glyph_info_cache
                /\ \A j \in DOMAIN atlas : atlas[j] # Allocated[i]
                /\ \A j \in DOMAIN Allocated : Allocated[j] = Allocated[i] => j = i
      ]_vars

\* A second lookup of a character on a set that has cached two characters,
\* the face that resolved it having allocated its image once.
C17_Witness ==
    /\ IsLookup
    /\ FontCall.cached
    /\ FontCall.ret.font_impl # None
    /\ Cardinality(DOMAIN FontOf(FontCall.font).glyph_info_cache) >= 2
    /\ Cardinality({i \in DOMAIN atlas :
                       atlas[i] = <<Unwrap(FontCall.ret.font_impl),
                                    Unwrap(FontCall.c)>>}) = 1
    /\ Cardinality(DOMAIN font_impls[Unwrap(FontCall.ret.font_impl)].glyph_info_cache) >= 2

\* C20: on a face that has cached tab and on which space resolves, space is
\* cached too, the glyph of tab has TAB_SIZE times the advance width of the
\* glyph of space and an empty UV rectangle, and the atlas has no image of
\* tab for the face; on a face that has cached tab and on which space does
\* not resolve, the glyph of tab is the one the font backend has for tab,
\* with the advance width of the face.  A lookup of tab on a font set returns
\* the glyph that the face it names has cached for tab.
C20_TabFromSpace ==
    /\ \A self \in DOMAIN font_impls :
          LET me == font_impls[self]
              cache == me.glyph_info_cache
          IN TAB \in DOMAIN cache =>
                IF PerFace(self, SPACE) # None
                THEN /\ SPACE \in DOMAIN cache
                     /\ cache[TAB].advance_width = TAB_SIZE * cache[SPACE].advance_width
                     /\ is_nothing(cache[TAB].uv_rect)
                     /\ \A i \in DOMAIN atlas : atlas[i] # <<self, TAB>>
                ELSE /\ SPACE \notin DOMAIN cache
                     /\ me.ab_glyph_font # None
                     /\ glyph_id_of(Unwrap(me.ab_glyph_font), TAB) # 0
                     /\ cache[TAB].id = glyph_id_of(Unwrap(me.ab_glyph_font), TAB)
                     /\ cache[TAB].advance_width = me.advance_width
    /\ (IsLookup /\ FontCall.c = Some(TAB) /\ FontCall.ret.font_impl # None) =>
          LET self == Unwrap(FontCall.ret.font_impl)
          IN /\ TAB \in DOMAIN font_impls[self].glyph_info_cache
             /\ FontCall.ret.glyph_info = font_impls[self].glyph_info_cache[TAB]

\* A first lookup of tab has been resolved by the face without font backend,
\* which synthesized it from the space it has drawn into the atlas for this
\* lookup: the set has not cached space.
C20_Witness ==
    /\ IsLookup
    /\ ~FontCall.cached
    /\ FontCall.c = Some(TAB)
    /\ FontCall.ret.font_impl = Some(3)
    /\ \E i \in DOMAIN atlas : atlas[i] = <<3, SPACE>>
    /\ SPACE \in DOMAIN font_impls[3].glyph_info_cache
    /\ SPACE \notin DOMAIN FontOf(FontCall.font).glyph_info_cache
    /\ FontCall.ret.glyph_info.advance_width = TAB_SIZE * 3

IsWidth == font_call # None /\ FontCall.op = "glyph_width"

\* No face of the font set resolves c: FontImpl::glyph_info(c) returns None
\* on each of them as they were loaded.
NoFaceResolves(slf, c) ==
    \A i \in DOMAIN slf.fonts :
        FontImpl_glyph_info(LoadedFonts, <<>>, slf.fonts[i], c).ret = None

\* C21: a character that no face of a font set resolves has no entry in the
\* glyph cache of any of these faces, and an entry of the cache of the set
\* for it is the replacement glyph of the set.  The first lookup of the
\* character on the set asks every face, in their order, returns the
\* replacement glyph and leaves it in the cache of the set; every later
\* lookup returns the replacement glyph and asks no face.
C21_MissCachedBySetOnly ==
    /\ \A family \in Constructed :
          \A c \in Chars :
              NoFaceResolves(FontOf(family), c) =>
                  /\ \A i \in DOMAIN FontOf(family).fonts :
                        c \notin DOMAIN font_impls[FontOf(family).fonts[i]].glyph_info_cache
                  /\ c \in DOMAIN FontOf(family).glyph_info_cache =>
                        FontOf(family).glyph_info_cache[c] = FontOf(family).replacement_glyph
    /\ (IsWidth /\ NoFaceResolves(FontOf(FontCall.font), Unwrap(FontCall.c))) =>
          LET slf == FontOf(FontCall.font)
              c == Unwrap(FontCall.c)
          IN /\ c \in DOMAIN slf.glyph_info_cache
             /\ slf.glyph_info_cache[c] = slf.replacement_glyph
             /\ FontCall.ret.font_index_glyph_info = slf.replacement_glyph
             /\ FontCall.cached => FontCall.queried = <<>>
             /\ ~FontCall.cached => FontCall.queried = slf.fonts

\* A later lookup of U+25FB on a set of two faces, neither of which has it:
\* the set returns its replacement glyph, the '?' of the latin face.
C21_Witness ==
    /\ IsWidth
    /\ FontCall.cached
    /\ FontCall.c = Some(PRIMARY_REPLACEMENT_CHAR)
    /\ Len(FontCall.fonts) = 2
    /\ NoFaceResolves(FontOf(FontCall.font), PRIMARY_REPLACEMENT_CHAR)
    /\ FontCall.queried = <<>>
    /\ FontCall.ret.font_index_glyph_info = FontOf(FontCall.font).replacement_glyph
    /\ FontOf(FontCall.font).replacement_glyph[2].id = FALLBACK_REPLACEMENT_CHAR

\* C22: on a face without font backend, and on a face whose backend has no
\* glyph for it, a character of U+200B..U+206F that the face does not ignore
\* is cached with a glyph of advance width zero and an empty UV rectangle,
\* and the atlas has no image of it for the face; a lookup that the face
\* resolved returns that cached glyph.
C22_InvisibleZeroMetric ==
    /\ \A self \in DOMAIN font_impls :
          \A c \in Chars :
              LET me == font_impls[self]
              IN (/\ invisible_char(c)
                  /\ ~ignore_character(me.name, c)
                  /\ (me.ab_glyph_font = None
                      \/ glyph_id_of(Unwrap(me.ab_glyph_font), c) = 0)
                  /\ c \in DOMAIN me.glyph_info_cache) =>
                     /\ me.glyph_info_cache[c].advance_width = 0
                     /\ is_nothing(me.glyph_info_cache[c].uv_rect)
                     /\ \A i \in DOMAIN atlas : atlas[i] # <<self, c>>
    /\ (IsLookup /\ FontCall.ret.font_impl # None /\ invisible_char(Unwrap(FontCall.c))) =>
          LET self == Unwrap(FontCall.ret.font_impl)
              c == Unwrap(FontCall.c)
          IN /\ c \in DOMAIN font_impls[self].glyph_info_cache
             /\ FontCall.ret.glyph_info = font_impls[self].glyph_info_cache[c]

(***************************************************************************)
(* The boundary scans and find_line_start applied to every text and every  *)
(* cursor index, also past the end of the text, in both build profiles.    *)
(***************************************************************************)
\* The text of the example of spec section 8.
FooBar == <<"f", "o", "o", " ", "b", "a", "r">>

ScanOps ==
    {"ccursor_next_bounded", "ccursor_previous_bounded", "select_bounded_at",
     "find_line_start"}

InitScan ==
    /\ text = <<>>
    /\ Default
    /\ Idle
    /\ NoFonts
    /\ \E op \in ScanOps, b \in {"Word", "Line"}, t \in Texts \cup {FooBar},
          checks \in BOOLEAN :
          \E c \in 0..Len(t) + 2 :
             scan = Some([op |-> op, boundary |-> b, chars |-> t, index |-> c,
                          overflow_checks |-> checks, result |-> None])

\* A call of op returns.
Returns(op, result) ==
    /\ scan # None
    /\ Unwrap(scan).op = op
    /\ Unwrap(scan).result = None
    /\ scan' = Some([Unwrap(scan) EXCEPT !.result = Some(result)])
    /\ UNCHANGED <<text, state_vars, frame, outcome, history_vars, font_vars>>

\* SelectionBoundary::ccursor_next_bounded(text, ccursor)
CCursorNextBounded ==
    /\ scan # None
    /\ Returns("ccursor_next_bounded",
               ccursor_next_bounded(Unwrap(scan).boundary, Unwrap(scan).chars,
                                    Unwrap(scan).index))

\* SelectionBoundary::ccursor_previous_bounded(text, ccursor)
CCursorPreviousBounded ==
    /\ scan # None
    /\ Returns("ccursor_previous_bounded",
               previous_bounded(Unwrap(scan).overflow_checks, Unwrap(scan).boundary,
                                Unwrap(scan).chars, Unwrap(scan).index))

\* find_line_start(text, current_index)
FindLineStart ==
    /\ scan # None
    /\ Returns("find_line_start",
               find_line_start(Unwrap(scan).overflow_checks, Unwrap(scan).chars,
                               Unwrap(scan).index))

NextScan ==
    \/ CCursorNextBounded
    \/ CCursorPreviousBounded
    \/ SelectBoundedAt
    \/ FindLineStart

SpecScan == InitScan /\ [][NextScan]_vars

ScanOp == Unwrap(scan).op
ScanResult == Unwrap(Unwrap(scan).result)

\* C15: for every text and every cursor index, also one past the number of
\* characters of the text, ccursor_next_bounded, ccursor_previous_bounded,
\* select_bounded_at (Word or Line) and find_line_start return without
\* panic, and for a cursor index past the end the boundary scans return the
\* length of the text as the boundary index.
C15_ScansTotal ==
    Scanned =>
        /\ ScanOp \in {"ccursor_next_bounded", "ccursor_previous_bounded",
                       "find_line_start"} => ScanResult # -1
        /\ (ScanIndex > Len(ScanText)
            /\ ScanOp \in {"ccursor_next_bounded", "ccursor_previous_bounded"}) =>
              ScanResult = Len(ScanText)
        /\ (ScanIndex > Len(ScanText) /\ ScanOp = "select_bounded_at") =>
              ScanMax = Len(ScanText)

\* C18: in Word mode on the text "foo bar", select_bounded_at returns the
\* range [0,3] at cursor index 1, [0,3] at cursor index 3 and [4,7] at cursor
\* index 4.
C18_FooBarWord ==
    (Scanned /\ ScanOp = "select_bounded_at" /\ Unwrap(scan).boundary = "Word"
     /\ ScanText = FooBar) =>
        /\ ScanIndex = 1 => <<ScanMin, ScanMax>> = <<0, 3>>
        /\ ScanIndex = 3 => <<ScanMin, ScanMax>> = <<0, 3>>
        /\ ScanIndex = 4 => <<ScanMin, ScanMax>> = <<4, 7>>

\* select_bounded_at has returned for "foo bar" at the space, index 3.
C18_Witness ==
    /\ Scanned
    /\ ScanOp = "select_bounded_at"
    /\ Unwrap(scan).boundary = "Word"
    /\ ScanText = FooBar
    /\ ScanIndex = 3
    /\ ScanText[ScanIndex + 1] = " "
    /\ ScanMax = 3

\* The boundary a forward scan of chars from start stops at, as spec section
\* 4.4 words it: start itself at or past the end; one past the first
\* character when it is the last; otherwise past the first two characters
\* and past the longest run of characters that follow them and are of the
\* boundary class of the second.  The class of the first is not looked at.
BoundaryAfter(self, chars, start) ==
    LET n == Len(chars)
        class(i) == is_boundary_char(self, chars[i + 1])
    IN IF start >= n THEN start
       ELSE IF start = n - 1 THEN start + 1
       ELSE CHOOSE r \in start + 2..n :
               /\ \A k \in start + 2..r - 1 : class(k) = class(start + 1)
               /\ r = n \/ class(r) # class(start + 1)

\* C19: for a text of n characters, in Word and in Line mode, the forward
\* scan from start < n returns start + 1 when one character remains and
\* otherwise start + 2 plus the length of the longest run of the characters
\* that follow, of the boundary class of the character at start + 1, so
\* start < result <= n, whatever the first character is; from start >= n it
\* returns start.  The backward scan from 0 <= c <= n returns n minus the
\* forward boundary of the reversed text from n - c, so 0 <= result <= c.
C19_ScanBoundaries ==
    Scanned =>
        LET self == Unwrap(scan).boundary
            n == Len(ScanText)
        IN /\ ScanOp = "ccursor_next_bounded" =>
                /\ ScanResult = BoundaryAfter(self, ScanText, ScanIndex)
                /\ ScanIndex < n => ScanIndex < ScanResult /\ ScanResult <= n
                /\ ScanIndex = n - 1 => ScanResult = ScanIndex + 1
                /\ ScanIndex >= n => ScanResult = ScanIndex
                /\ ScanIndex < n =>
                      \A first \in Alphabet :
                          ccursor_next_bounded(self,
                                               [ScanText EXCEPT ![ScanIndex + 1] = first],
                                               ScanIndex) = ScanResult
           /\ (ScanOp = "ccursor_previous_bounded" /\ ScanIndex <= n) =>
                /\ ScanResult = n - BoundaryAfter(self, Rev(ScanText), n - ScanIndex)
                /\ 0 <= ScanResult /\ ScanResult <= ScanIndex

\* The backward scan of "foo bar" from its end has returned 4, the start of
\* "bar": the forward scan of "rab oof" from 0 stops at 3.
C19_Witness ==
    /\ Scanned
    /\ ScanOp = "ccursor_previous_bounded"
    /\ Unwrap(scan).boundary = "Word"
    /\ ScanText = FooBar
    /\ ScanIndex = 7
    /\ ScanResult = 4
    /\ BoundaryAfter("Word", Rev(FooBar), 0) = 3

\* C24: for every text and every cursor index from 0 to the number of its
\* characters, the range [min, max] that select_bounded_at returns in Word
\* or Line mode has min <= max and holds the cursor index.
C24_RangeHoldsCursor ==
    (Scanned /\ ScanOp = "select_bounded_at" /\ ScanIndex <= Len(ScanText)) =>
        /\ ScanMin <= ScanMax
        /\ ScanMin <= ScanIndex
        /\ ScanIndex <= ScanMax

(***************************************************************************)
(* The public scans called on a SelectionBoundary of any of the three      *)
(* modes.                                                                  *)
(***************************************************************************)
InitMode ==
    /\ text = <<>>
    /\ Default
    /\ Idle
    /\ NoFonts
    /\ \E op \in {"ccursor_next_bounded", "ccursor_previous_bounded"},
          b \in {"Character", "Word", "Line"}, t \in Texts, checks \in BOOLEAN :
          \E c \in 0..Len(t) + 1 :
             scan = Some([op |-> op, boundary |-> b, chars |-> t, index |-> c,
                          overflow_checks |-> checks, result |-> None])

NextMode ==
    \/ CCursorNextBounded
    \/ CCursorPreviousBounded

SpecMode == InitMode /\ [][NextMode]_vars

\* C23: no call of ccursor_next_bounded or ccursor_previous_bounded in
\* Character mode, on any text and any index, reaches is_boundary_char and
\* its unreachable!().
C23_CharacterNeverClassified ==
    (Scanned /\ Unwrap(scan).boundary = "Character") => ScanResult # -2

(***************************************************************************)
(* FontImpl::glyph_info step by step, for callers that run concurrently on *)
(* faces that share the atlas.  A step ends where the caller is about to   *)
(* acquire a lock or has just acquired one; a guard of a lock (the         *)
(* temporary of `.read()`, `.write()` or `.lock()`) is dropped at the end  *)
(* of the statement that created it.                                       *)
(*                                                                         *)
(* A caller is [stack, done, ret]; a frame of its stack is one call of     *)
(* glyph_info: [self, c, pc, glyph_info], the last being the glyph it is   *)
(* about to cache.  locks.atlas is the holder of the atlas mutex;          *)
(* locks.cache[self] the writer and the readers of the RwLock of a face.   *)
(***************************************************************************)
\* Number of concurrent callers.
MaxCallers == 2

\* The characters the concurrent callers look up.
LockChars == {TAB, SPACE, FALLBACK_REPLACEMENT_CHAR, 8203}

InitLock ==
    /\ text = <<>>
    /\ Default
    /\ Idle
    /\ scan = None
    /\ font_impls = LoadedFonts
    /\ atlas = <<>>
    /\ fonts = <<>>
    /\ font_call = None
    /\ callers = [t \in 1..MaxCallers |-> [stack |-> <<>>, done |-> FALSE, ret |-> None]]
    /\ locks = [atlas |-> None,
                cache |-> [self \in DOMAIN LoadedFonts |->
                              [writer |-> None, readers |-> {}]]]

Top(t) == callers[t].stack[Len(callers[t].stack)]
Running(t) == callers[t].stack # <<>>
At(t, pc) == Running(t) /\ Top(t).pc = pc

\* Mutex::lock, RwLock::read and RwLock::write return once the lock is free.
AtlasFree == locks.atlas = None
ReadFree(self) == locks.cache[self].writer = None
WriteFree(self) == locks.cache[self].writer = None /\ locks.cache[self].readers = {}

\* The frame of a new call of glyph_info: it starts by reading the cache.
Frame_new(self, c) ==
    [self |-> self, c |-> c, pc |-> "cache_read_lock", glyph_info |-> GlyphInfo_default]

\* Where a call goes after the miss in the cache and, for tab, after the
\* lookup of space has returned None (lines 161-200): it returns None, goes
\* on to cache the default glyph, or goes on to lock the atlas.
after_miss(frame_) ==
    LET me == font_impls[frame_.self]
    IN IF me.ab_glyph_font # None
       THEN IF glyph_id_of(Unwrap(me.ab_glyph_font), frame_.c) = 0
            THEN IF invisible_char(frame_.c)
                 THEN [frame_ EXCEPT !.pc = "cache_write_lock",
                                     !.glyph_info = GlyphInfo_default]
                 ELSE [frame_ EXCEPT !.pc = "return_none"]
            ELSE [frame_ EXCEPT !.pc = "atlas_lock"]
       ELSE [frame_ EXCEPT !.pc = "atlas_lock"]

\* The stack of a caller whose innermost call returns ret: the caller is
\* done, or the call for tab that asked for space goes on (lines 151-159).
returned(stack, ret) ==
    LET rest == SubSeq(stack, 1, Len(stack) - 1)
        outer == rest[Len(rest)]
    IN IF rest = <<>>
       THEN [stack |-> <<>>, done |-> TRUE, ret |-> ret]
       ELSE IF ret # None
       THEN [stack |-> [rest EXCEPT ![Len(rest)] =
                          [outer EXCEPT !.pc = "cache_write_lock",
                                        !.glyph_info = tab_glyph_info(Unwrap(ret))]],
             done |-> FALSE, ret |-> None]
       ELSE IF after_miss(outer).pc = "return_none"
       THEN [stack |-> <<>>, done |-> TRUE, ret |-> None]
       ELSE [stack |-> [rest EXCEPT ![Len(rest)] = after_miss(outer)],
             done |-> FALSE, ret |-> None]

SetTop(t, frame_) ==
    [callers EXCEPT ![t].stack = [@ EXCEPT ![Len(@)] = frame_]]

lock_unrelated == <<machine_vars, fonts, font_call>>

\* A caller calls glyph_info(c) on a face.
CallGlyphInfo(t) ==
    /\ ~callers[t].done
    /\ ~Running(t)
    /\ \E self \in DOMAIN font_impls, c \in LockChars :
          callers' = [callers EXCEPT ![t].stack = <<Frame_new(self, c)>>]
    /\ UNCHANGED <<lock_unrelated, font_impls, atlas, locks>>

\* Line 141: self.glyph_info_cache.read()
CacheReadLock(t) ==
    /\ At(t, "cache_read_lock")
    /\ ReadFree(Top(t).self)
    /\ locks' = [locks EXCEPT !.cache[Top(t).self].readers = @ \cup {t}]
    /\ callers' = SetTop(t, [Top(t) EXCEPT !.pc = "cache_get"])
    /\ UNCHANGED <<lock_unrelated, font_impls, atlas>>

\* Lines 141-159: .get(&c) under the read lock, which is then released; on a
\* miss the denylist, and for tab the call of glyph_info(' ').
CacheGet(t) ==
    /\ At(t, "cache_get")
    /\ locks' = [locks EXCEPT !.cache[Top(t).self].readers = @ \ {t}]
    /\ LET me == font_impls[Top(t).self]
           c == Top(t).c
       IN IF c \in DOMAIN me.glyph_info_cache
          THEN callers' = [callers EXCEPT
                             ![t] = returned(@.stack, Some(me.glyph_info_cache[c]))]
          ELSE IF ignore_character(me.name, c)
          THEN callers' = [callers EXCEPT ![t] = returned(@.stack, None)]
          ELSE IF c = TAB
          THEN callers' = [callers EXCEPT
                             ![t].stack = Append([@ EXCEPT ![Len(@)].pc = "tab_space"],
                                                 Frame_new(Top(t).self, SPACE))]
          ELSE IF after_miss(Top(t)).pc = "return_none"
          THEN callers' = [callers EXCEPT ![t] = returned(@.stack, None)]
          ELSE callers' = SetTop(t, after_miss(Top(t)))
    /\ UNCHANGED <<lock_unrelated, font_impls, atlas>>

\* Lines 177 and 190: self.atlas.lock()
AtlasLock(t) ==
    /\ At(t, "atlas_lock")
    /\ AtlasFree
    /\ locks' = [locks EXCEPT !.atlas = Some(t)]
    /\ callers' = SetTop(t, [Top(t) EXCEPT !.pc = "allocate"])
    /\ UNCHANGED <<lock_unrelated, font_impls, atlas>>

\* Mutant: the guard of the atlas is bound to a variable and lives on.
atlas_guard_kept(lk) == lk

\* The guard of the atlas is dropped at the end of the statement that calls
\* allocate_glyph or allocate_native_glyph (lines 176-183, 189-196).
atlas_guard_dropped(lk) == [lk EXCEPT !.atlas = None]

\* Lines 176-183 and 189-196: allocate_glyph or allocate_native_glyph with
\* the atlas locked.
Allocate(t) ==
    /\ At(t, "allocate")
    /\ LET me == font_impls[Top(t).self]
           c == Top(t).c
           a == IF me.ab_glyph_font # None
                THEN allocate_glyph(atlas, <<Top(t).self, c>>, Unwrap(me.ab_glyph_font),
                                    glyph_id_of(Unwrap(me.ab_glyph_font), c),
                                    me.advance_width)
                ELSE allocate_native_glyph(atlas, <<Top(t).self, c>>, me.advance_width)
       IN /\ atlas' = a.atlas
          /\ callers' = SetTop(t, [Top(t) EXCEPT !.pc = "cache_write_lock",
                                                 !.glyph_info = a.glyph_info])
    /\ locks' = atlas_guard_dropped(locks)
    /\ UNCHANGED <<lock_unrelated, font_impls>>

\* Lines 156, 170, 185 and 198: self.glyph_info_cache.write()
CacheWriteLock(t) ==
    /\ At(t, "cache_write_lock")
    /\ WriteFree(Top(t).self)
    /\ locks' = [locks EXCEPT !.cache[Top(t).self].writer = Some(t)]
    /\ callers' = SetTop(t, [Top(t) EXCEPT !.pc = "cache_insert"])
    /\ UNCHANGED <<lock_unrelated, font_impls, atlas>>

\* Lines 156, 170, 185 and 198: .insert(c, glyph_info) under the write lock,
\* which is then released, and the return of Some(glyph_info).
CacheInsert(t) ==
    /\ At(t, "cache_insert")
    /\ font_impls' = [font_impls EXCEPT
                        ![Top(t).self].glyph_info_cache =
                            insert(@, Top(t).c, Top(t).glyph_info)]
    /\ locks' = [locks EXCEPT !.cache[Top(t).self].writer = None]
    /\ callers' = [callers EXCEPT ![t] = returned(@.stack, Some(Top(t).glyph_info))]
    /\ UNCHANGED <<lock_unrelated, atlas>>

NextLock ==
    \/ \E t \in DOMAIN callers : CallGlyphInfo(t)
    \/ \E t \in DOMAIN callers : CacheReadLock(t)
    \/ \E t \in DOMAIN callers : CacheGet(t)
    \/ \E t \in DOMAIN callers : AtlasLock(t)
    \/ \E t \in DOMAIN callers : Allocate(t)
    \/ \E t \in DOMAIN callers : CacheWriteLock(t)
    \/ \E t \in DOMAIN callers : CacheInsert(t)

SpecLock == InitLock /\ [][NextLock]_vars

\* The locks a caller holds.
Holds(t) ==
    (IF locks.atlas = Some(t) THEN {<<"atlas", 0>>} ELSE {})
        \cup {<<"cache", self>> : self \in
                 {i \in DOMAIN locks.cache :
                     locks.cache[i].writer = Some(t) \/ t \in locks.cache[i].readers}}

\* The caller is about to acquire a lock.
Acquiring(t) ==
    At(t, "cache_read_lock") \/ At(t, "atlas_lock") \/ At(t, "cache_write_lock")

\* A step of a call in progress.
Step(t) ==
    \/ CacheReadLock(t)
    \/ CacheGet(t)
    \/ AtlasLock(t)
    \/ Allocate(t)
    \/ CacheWriteLock(t)
    \/ CacheInsert(t)

\* C16: a caller holds the atlas lock only for its allocate-and-rasterize
\* step, so no longer when it writes the glyph cache; a caller about to
\* acquire a lock holds none (also inside the lookup of space made for tab),
\* and none is held between calls; at most one caller is inside the atlas;
\* and while a call is in progress some call in progress can take a step
\* (no deadlock).
C16_LockDiscipline ==
    /\ \A t \in DOMAIN callers :
          /\ locks.atlas = Some(t) => At(t, "allocate")
          /\ (At(t, "cache_write_lock") \/ At(t, "cache_insert")) => locks.atlas # Some(t)
          /\ Acquiring(t) => Holds(t) = {}
          /\ ~Running(t) => Holds(t) = {}
    /\ Cardinality({t \in DOMAIN callers : At(t, "allocate")}) <= 1
    /\ (\E t \in DOMAIN callers : Running(t)) =>
          \E t \in DOMAIN callers : Running(t) /\ ENABLED Step(t)

\* A caller is inside the atlas for the space that its lookup of tab asked
\* for, while another caller, on another face, waits for the atlas.
C16_Witness ==
    \E t, u \in DOMAIN callers :
        /\ At(t, "allocate")
        /\ Len(callers[t].stack) = 2
        /\ locks.atlas = Some(t)
        /\ At(u, "atlas_lock")
        /\ Top(u).self # Top(t).self
        /\ ~ENABLED Step(u)

(***************************************************************************)
(* Concurrent lookups of one character on one face.                        *)
(***************************************************************************)
\* The glyphs that callers have received and that were drawn into the atlas:
\* the image at the position of a glyph names the face and the character it
\* was drawn for.
Received ==
    {Unwrap(callers[t].ret) : t \in {u \in DOMAIN callers :
                                       callers[u].done /\ callers[u].ret # None}}
Drawn == {g \in Received : ~is_nothing(g.uv_rect)}
DrawnFor(g) == atlas[g.uv_rect.min + 1]

\* C26: under every interleaving of the callers, the atlas holds at most one
\* image for a face and a character (the allocator ran once for them), the
\* callers that received a glyph drawn for the same face and character
\* received the same glyph, and that glyph is the entry of the cache of the
\* face for the character (the entry was written once and not overwritten).
C26_ConcurrentLookupOnce ==
    /\ \A i, j \in DOMAIN atlas : atlas[i] = atlas[j] => i = j
    /\ \A g, h \in Drawn : DrawnFor(g) = DrawnFor(h) => g = h
    /\ \A g \in Drawn :
          LET self == DrawnFor(g)[1]
              c == DrawnFor(g)[2]
          IN /\ c \in DOMAIN font_impls[self].glyph_info_cache
             /\ font_impls[self].glyph_info_cache[c] = g

(***************************************************************************)
(* The initial range of a drag and the presses.                            *)
(***************************************************************************)
\* C25: when a call of pointer_interaction that continues a drag in Word or
\* Line mode has rewritten the current range, the initial range it has
\* extended is the range that the most recent press, with or without shift,
\* set as the current range.
C25_ExtendsRangeOfLastPress ==
    (frame = None /\ outcome.op = "drag_bounded" /\ initial_cursor_range # None) =>
        initial_cursor_range = press_range

====
